---- MODULE Spec2Model ----
(***************************************************************************)
(* CPCV2 (pl_bolts/models/self_supervised/cpc/cpc_module.py): the patch    *)
(* grid reassembly, the forward pass, the construction-time shape probe    *)
(* and the training / validation step orchestration.                       *)
(*                                                                         *)
(* A tensor is a record [shape, data, grad, src]: its size, its elements   *)
(* in row-major (contiguous) order, the parameter groups its autograd      *)
(* graph reaches, and the batch pair its values were computed from.        *)
(* An image batch keeps one content id per patch instead of the pixels:    *)
(* the encoder, which is the only reader of pixels, is a pluggable         *)
(* function of the patch.                                                  *)
(***************************************************************************)
EXTENDS Integers, Sequences, FiniteSets, TLC

\* ------------------------------------------------------------------ bounds
MaxB == 2
MaxP == 4
MaxCz == 2
MaxHW == 2

\* ------------------------------------------------- constants of the source
DummyB == 2
DummyP == 49
DefaultPatchSize == 8

BatchSizes == 1..MaxB
PatchCounts == (1..MaxP) \cup {DummyP}
Channels == 1..MaxCz
SpatialSides == 1..MaxHW

\* --------------------------------------------------------- tensor algebra
RECURSIVE Prod(_)
Prod(s) == IF s = <<>> THEN 1 ELSE Head(s) * Prod(Tail(s))

Numel(Z) == Len(Z.data)

Size(Z, d) == Z.shape[d + 1]

Front(s) == SubSeq(s, 1, Len(s) - 1)

NoTensor == [shape |-> <<0>>, data |-> <<>>, grad |-> {}, src |-> "none"]

Ok(Z) == [ok |-> TRUE, err |-> "", t |-> Z]

Fail(e) == [ok |-> FALSE, err |-> e, t |-> NoTensor]

\* Z.squeeze(-1): drops the last dimension when (and only when) it is 1.
SqueezeLast(Z) ==
    IF Len(Z.shape) > 0 /\ Z.shape[Len(Z.shape)] = 1
    THEN [Z EXCEPT !.shape = Front(Z.shape)]
    ELSE Z

\* int(math.sqrt(x)): the floor of the square root.
ISqrt(x) == CHOOSE n \in 0..x : n * n <= x /\ (n + 1) * (n + 1) > x

IsSquare(x) == ISqrt(x) * ISqrt(x) = x

\* Z.view(*req) on a contiguous tensor; req has at most one -1 entry.
Known(req) == Prod([i \in 1..Len(req) |-> IF req[i] = -1 THEN 1 ELSE req[i]])

View(Z, req) ==
    IF \E i \in 1..Len(req) : req[i] = -1
    THEN IF Known(req) = 0
         THEN Fail("RuntimeError: view: unspecified dimension is ambiguous")
         ELSE IF Numel(Z) % Known(req) # 0
              THEN Fail("RuntimeError: view: shape is invalid for input size")
              ELSE Ok([Z EXCEPT !.shape =
                         [i \in 1..Len(req) |->
                            IF req[i] = -1 THEN Numel(Z) \div Known(req) ELSE req[i]]])
    ELSE IF Known(req) # Numel(Z)
         THEN Fail("RuntimeError: view: shape is invalid for input size")
         ELSE Ok([Z EXCEPT !.shape = req])

\* Z.permute(0, 2, 1).contiguous() of a 3-d tensor (a, m, c) -> (a, c, m).
PermuteNoSwap(Z) == [Z EXCEPT !.shape = <<Z.shape[1], Z.shape[3], Z.shape[2]>>]

Permute021(Z) ==
    LET a == Z.shape[1]
        m == Z.shape[2]
        c == Z.shape[3]
    IN  [Z EXCEPT !.shape = <<a, c, m>>,
                  !.data = [k \in 1..(a * m * c) |->
                              LET i == (k - 1) \div (c * m)
                                  r == (k - 1) % (c * m)
                                  ch == r \div m
                                  p == r % m
                              IN  Z.data[(i * m + p) * c + ch + 1]]]

\* --------------------------------------------------- CPCV2.__recover_z_shape
recover_z_shape(Z0, b) ==
    LET Z1 == SqueezeLast(Z0)
        nb_feats == ISqrt(Size(Z1, 0) \div b)
    IN  IF Len(Z1.shape) < 2
        THEN Fail("IndexError: dimension out of range")
        ELSE LET v1 == View(Z1, <<b, -1, Size(Z1, 1)>>)
             IN  IF ~v1.ok THEN v1
                 ELSE View(Permute021(v1.t), <<b, -1, nb_feats, nb_feats>>)

\* ------------------------------------------------------ python containers
ImgChannels == 3
NumClasses == 10

\* A (B, P, C, Wp, Hp) patch batch; patch k of the flat order has content id base + k.
Image(B, P, ps, src, base) ==
    [kind |-> "image", size |-> <<B, P, ImgChannels, ps, ps>>,
     patch |-> [k \in 1..(B * P) |-> base + k], y |-> <<>>, elems |-> <<>>, src |-> src]

Labels(B, src, base) ==
    [kind |-> "labels", size |-> <<B>>, patch |-> <<>>,
     y |-> [k \in 1..B |-> (base + k) % NumClasses], elems |-> <<>>, src |-> src]

\* A python tuple / list of two elements.
PySeq(a, b) ==
    [kind |-> "seq", size |-> <<2>>, patch |-> <<>>, y |-> <<>>, elems |-> <<a, b>>,
     src |-> "seq"]

NoItem == [kind |-> "none", size |-> <<>>, patch |-> <<>>, y |-> <<>>, elems |-> <<>>,
           src |-> "none"]

\* x[i]
Getitem(x, i) ==
    IF x.kind = "seq" THEN x.elems[i + 1]
    ELSE LET rest == Tail(x.size)
             np == IF x.kind = "image" /\ Len(x.size) > 3
                   THEN Prod(SubSeq(rest, 1, Len(rest) - 3)) ELSE 0
             ny == IF x.kind = "labels" THEN Prod(rest) ELSE 0
         IN  [x EXCEPT !.size = rest,
                       !.patch = SubSeq(x.patch, i * np + 1, (i + 1) * np),
                       !.y = SubSeq(x.y, i * ny + 1, (i + 1) * ny)]

\* a, b = x
Unpack2(x) ==
    IF x.kind = "seq"
    THEN [ok |-> TRUE, err |-> "", a |-> x.elems[1], b |-> x.elems[2]]
    ELSE IF Len(x.size) > 0 /\ x.size[1] = 2
         THEN [ok |-> TRUE, err |-> "", a |-> Getitem(x, 0), b |-> Getitem(x, 1)]
         ELSE [ok |-> FALSE, err |-> "ValueError: wrong number of values to unpack",
               a |-> NoItem, b |-> NoItem]

\* self.hparams is an attribute dictionary: reading a key it lacks raises.
HasAttr(hp, name) == name \in DOMAIN hp

\* --------------------------------------------------------------- encoder
\* The encoder is a pluggable function: (N, C, Wp, Hp) -> (N, Cz, hw, hw), returned
\* bare or as the first element of a list.  Each feature is a fixed function of the
\* patch, the channel and the position.
EncoderCall(enc, x, ge) ==
    LET N == x.size[1]
        per == enc.Cz * enc.hw * enc.hw
    IN  [kind |-> enc.returns,
         t |-> [shape |-> <<N, enc.Cz, enc.hw, enc.hw>>,
                data |-> [k \in 1..(N * per) |->
                            x.patch[((k - 1) \div per) + 1] * 100
                              + (((k - 1) % per) \div (enc.hw * enc.hw)) * 10
                              + ((k - 1) % (enc.hw * enc.hw))],
                grad |-> IF ge THEN {"encoder"} ELSE {},
                src |-> x.src]]

\* out[0]: the first element of a list, or the first row of a tensor.
Index0(out) ==
    IF out.kind = "list" THEN out.t
    ELSE [out.t EXCEPT !.shape = Tail(out.t.shape),
                       !.data = SubSeq(out.t.data, 1, Prod(Tail(out.t.shape)))]

\* if self.hparams.encoder != 'cpc_encoder': Z = Z[0]
SelectEncoderOutput(hp, out) ==
    IF hp.encoder # "cpc_encoder" THEN Index0(out) ELSE out.t

\* CPCV2.init_encoder: the encoder built for a name.
init_encoder(name, Cz, hw) ==
    IF name = "cpc_encoder"
    THEN [returns |-> "tensor", Cz |-> Cz, hw |-> hw]
    ELSE [returns |-> "list", Cz |-> Cz, hw |-> hw]

\* ------------------------------------------------------------ CPCV2.forward
FwdFail(e, ran, ge) == [ok |-> FALSE, err |-> e, t |-> NoTensor, ran |-> ran, ge |-> ge]

forward(self, img_1, ge) ==
    IF img_1.kind = "seq"
    THEN FwdFail("AttributeError: object has no attribute 'size'", FALSE, ge)
    ELSE IF Len(img_1.size) # 5
    THEN FwdFail("ValueError: wrong number of values to unpack", FALSE, ge)
    ELSE LET b == img_1.size[1]
             p == img_1.size[2]
             flat == [img_1 EXCEPT !.size = <<b * p>> \o SubSeq(img_1.size, 3, 5)]
             Z == SelectEncoderOutput(self.hparams, EncoderCall(self.encoder, flat, ge))
             r == recover_z_shape(Z, b)
         IN  [ok |-> r.ok, err |-> r.err, t |-> r.t, ran |-> TRUE, ge |-> ge]

\* ----------------------------------------------- CPCV2.__compute_final_nb_c
compute_final_nb_c(self, patch_size) ==
    LET dummy_batch == [kind |-> "image", size |-> <<DummyB * DummyP, ImgChannels, patch_size, patch_size>>,
                        patch |-> [k \in 1..(DummyB * DummyP) |-> 0], y |-> <<>>,
                        elems |-> <<>>, src |-> "dummy"]
        Z == SelectEncoderOutput(self.hparams, EncoderCall(self.encoder, dummy_batch, TRUE))
        r == recover_z_shape(Z, DummyB)
    IN  IF ~r.ok THEN [ok |-> FALSE, err |-> r.err, c |-> 0, h |-> 0]
        ELSE [ok |-> TRUE, err |-> "", c |-> r.t.shape[2], h |-> r.t.shape[3]]

\* ------------------------------------------------ losses and the probe
NoScalar == [value |-> 0, grad |-> {}, img_src |-> "none", y_src |-> "none"]

\* Z.detach()
Detach(Z) == [Z EXCEPT !.grad = {}]

\* CPCTask(num_input_channels = c)(Z): a scalar computed from the grid with the
\* task's own parameters; a grid with another channel count is refused.
CPCTask(task, Z, ge) ==
    IF Z.shape[2] # task.num_input_channels
    THEN [ok |-> FALSE, err |-> "RuntimeError: info_nce: channel mismatch", s |-> NoScalar]
    ELSE [ok |-> TRUE, err |-> "",
          s |-> [value |-> 1 + ((Z.data[1] + Z.data[Numel(Z)]) % 5),
                 grad |-> IF ge THEN {<<p, "nce">> : p \in Z.grad \cup {"info_nce"}} ELSE {},
                 img_src |-> Z.src, y_src |-> "none"]]

\* SSLEvaluator(n_input = z_dim)(z_in): class scores, one row per image.
SSLEvaluator(probe, z_in, ge) ==
    IF z_in.shape[2] # probe.n_input
    THEN Fail("RuntimeError: non_linear_evaluator: input width mismatch")
    ELSE Ok([shape |-> <<z_in.shape[1], NumClasses>>,
             data |-> <<z_in.data[1], z_in.data[Numel(z_in)]>>,
             grad |-> IF ge THEN z_in.grad \cup {"non_linear_evaluator"} ELSE {},
             src |-> z_in.src])

\* F.cross_entropy(mlp_preds, y)
cross_entropy(mlp_preds, y) ==
    [value |-> 1 + ((mlp_preds.data[1] + mlp_preds.data[2] + y.y[1]) % 5),
     grad |-> {<<p, "mlp">> : p \in mlp_preds.grad},
     img_src |-> mlp_preds.src, y_src |-> y.src]

\* metrics.accuracy(mlp_preds, y)
accuracy(mlp_preds, y) ==
    [value |-> (mlp_preds.data[1] + y.y[1]) % 2, grad |-> {},
     img_src |-> mlp_preds.src, y_src |-> y.src]

\* nce_loss + mlp_loss
Add(a, b) ==
    [value |-> a.value + b.value, grad |-> a.grad \cup b.grad,
     img_src |-> "sum", y_src |-> "sum"]

\* ------------------------------------------------------- step results
\* What a call left behind: its status, what it returned, and each encoder run it
\* made (the gradient mode of the run).
NoResult ==
    [op |-> "none", status |-> "none", ge |-> FALSE, dual |-> FALSE,
     loss |-> NoScalar, nce_loss |-> NoScalar, mlp_loss |-> NoScalar, acc |-> NoScalar,
     keys |-> {}, runs |-> <<>>, Z |-> NoTensor, z_in |-> NoTensor]

Raise(r, e) == [r EXCEPT !.status = e]

Runs(f) == IF f.ran THEN <<f.ge>> ELSE <<>>

MissingDataset == "AttributeError: 'dataset'"

\* self.hparams.dataset == 'stl10'
IsDualStream(hp) == hp.dataset = "stl10"

\* ------------------------------------------------------ CPCV2.training_step
\* if self.hparams.dataset == 'stl10': img_1, y = labeled_batch
ProbePairUnlabeled(dual, labeled_batch, img_1, y) ==
    [ok |-> TRUE, err |-> "", a |-> img_1, b |-> y]

ProbePair(dual, labeled_batch, img_1, y) ==
    IF dual THEN Unpack2(labeled_batch)
    ELSE [ok |-> TRUE, err |-> "", a |-> img_1, b |-> y]

\* with torch.no_grad(): Z = self(img_1);  z_in = Z.detach()
ProbeGridWithGrad(self, img_1, ge) == forward(self, img_1, ge)

ProbeGridTrain(self, img_1, ge) ==
    LET f == forward(self, img_1, FALSE)
    IN  [f EXCEPT !.t = Detach(f.t)]

\* loss = nce_loss + mlp_loss; log['train_mlp_loss'] = mlp_loss
TrainCombineNceOnly(r, nce_loss, mlp_loss) ==
    [r EXCEPT !.loss = nce_loss, !.mlp_loss = mlp_loss,
              !.keys = r.keys \cup {"train_mlp_loss"}]

TrainCombine(r, nce_loss, mlp_loss) ==
    [r EXCEPT !.loss = Add(nce_loss, mlp_loss), !.mlp_loss = mlp_loss,
              !.keys = r.keys \cup {"train_mlp_loss"}]

training_step(self, batch, ge) ==
    LET r0 == [NoResult EXCEPT !.op = "training_step", !.ge = ge]
    IN  IF ~HasAttr(self.hparams, "dataset") THEN Raise(r0, MissingDataset)
        ELSE
        LET dual == IsDualStream(self.hparams)
            labeled_batch == IF dual THEN Getitem(batch, 1) ELSE NoItem
            batch1 == IF dual THEN Getitem(batch, 0) ELSE batch
            up == Unpack2(batch1)
            r1 == [r0 EXCEPT !.dual = dual]
        IN  IF ~up.ok THEN Raise(r1, up.err)
            ELSE
            LET f1 == forward(self, up.a, ge)
                r2 == [r1 EXCEPT !.runs = Runs(f1), !.Z = f1.t]
            IN  IF ~f1.ok THEN Raise(r2, f1.err)
                ELSE
                LET n == CPCTask(self.info_nce, f1.t, ge)
                    r3 == [r2 EXCEPT !.loss = n.s, !.nce_loss = n.s,
                                     !.keys = {"train_nce_loss"}]
                IN  IF ~n.ok THEN Raise(r2, n.err)
                    ELSE IF ~self.online_evaluator THEN [r3 EXCEPT !.status = "ok"]
                    ELSE
                    LET pp == ProbePair(dual, labeled_batch, up.a, up.b)
                    IN  IF ~pp.ok THEN Raise(r3, pp.err)
                        ELSE
                        LET f2 == ProbeGridTrain(self, pp.a, ge)
                            r4 == [r3 EXCEPT !.runs = r3.runs \o Runs(f2)]
                        IN  IF ~f2.ok THEN Raise(r4, f2.err)
                            ELSE
                            LET z_in == View(f2.t, <<f2.t.shape[1], -1>>).t
                                r5 == [r4 EXCEPT !.z_in = z_in]
                                m == SSLEvaluator(self.non_linear_evaluator, z_in, ge)
                            IN  IF ~m.ok THEN Raise(r5, m.err)
                                ELSE [TrainCombine(r5, n.s, cross_entropy(m.t, pp.b))
                                        EXCEPT !.status = "ok"]

\* ---------------------------------------------------- CPCV2.validation_step
validation_step(self, batch, ge) ==
    LET r0 == [NoResult EXCEPT !.op = "validation_step", !.ge = ge]
    IN  IF ~HasAttr(self.hparams, "dataset") THEN Raise(r0, MissingDataset)
        ELSE
        LET dual == IsDualStream(self.hparams)
            labeled_batch == IF dual THEN Getitem(batch, 1) ELSE NoItem
            batch1 == IF dual THEN Getitem(batch, 0) ELSE batch
            up == Unpack2(batch1)
            r1 == [r0 EXCEPT !.dual = dual]
        IN  IF ~up.ok THEN Raise(r1, up.err)
            ELSE
            LET f1 == forward(self, up.a, ge)
                r2 == [r1 EXCEPT !.runs = Runs(f1), !.Z = f1.t]
            IN  IF ~f1.ok THEN Raise(r2, f1.err)
                ELSE
                LET n == CPCTask(self.info_nce, f1.t, ge)
                    r3 == [r2 EXCEPT !.nce_loss = n.s, !.keys = {"val_nce"}]
                IN  IF ~n.ok THEN Raise(r2, n.err)
                    ELSE IF ~self.online_evaluator THEN [r3 EXCEPT !.status = "ok"]
                    ELSE
                    LET pp == ProbePair(dual, labeled_batch, up.a, up.b)
                    IN  IF ~pp.ok THEN Raise(r3, pp.err)
                        ELSE
                        LET f2 == IF dual THEN forward(self, pp.a, ge) ELSE [f1 EXCEPT !.ran = FALSE]
                            r4 == [r3 EXCEPT !.runs = r3.runs \o Runs(f2)]
                        IN  IF ~f2.ok THEN Raise(r4, f2.err)
                            ELSE
                            LET z_in == View(f2.t, <<f2.t.shape[1], -1>>).t
                                r5 == [r4 EXCEPT !.z_in = z_in]
                                m == SSLEvaluator(self.non_linear_evaluator, z_in, ge)
                            IN  IF ~m.ok THEN Raise(r5, m.err)
                                ELSE [r5 EXCEPT !.status = "ok",
                                                !.mlp_loss = cross_entropy(m.t, pp.b),
                                                !.acc = accuracy(m.t, pp.b),
                                                !.keys = {"val_nce", "mlp_acc", "mlp_loss"}]

\* ------------------------------------------------ CPCV2.configure_optimizers
configure_optimizers(self) ==
    LET r0 == [NoResult EXCEPT !.op = "configure_optimizers"]
    IN  IF ~HasAttr(self.hparams, "dataset") THEN Raise(r0, MissingDataset)
        ELSE [r0 EXCEPT !.status = "ok", !.keys = {"opt"}]

\* ---------------------------------------------------- CPCV2.load_pretrained
\* 'resnet18' has weights; for anything else the elif tests a set for membership in
\* a set, which raises.
load_pretrained(encoder_arg) ==
    IF encoder_arg = "resnet18" THEN "ok" ELSE "TypeError: unhashable type: 'set'"

\* ------------------------------------------------------------ CPCV2.__init__
NoEncoder == [returns |-> "none", Cz |-> 0, hw |-> 0]

NoTask == [num_input_channels |-> 0]

NoProbe == [n_input |-> 0]

\* save_hyperparameters(): the named arguments and the keyword arguments given.
save_hyperparameters(encoder_arg, patch_size, online_ft, has_dataset, dataset) ==
    IF has_dataset
    THEN [encoder |-> encoder_arg, patch_size |-> patch_size, online_ft |-> online_ft,
          dataset |-> dataset]
    ELSE [encoder |-> encoder_arg, patch_size |-> patch_size, online_ft |-> online_ft]

\* encoder_arg is a name, or "<module>" for a module instance, which is then module.
init(encoder_arg, module, patch_size, online_ft, pretrained, has_dataset, dataset) ==
    LET hp0 == save_hyperparameters(encoder_arg, patch_size, online_ft, has_dataset, dataset)
        hp == IF pretrained
              THEN save_hyperparameters(encoder_arg, patch_size, online_ft, TRUE, "True")
              ELSE hp0
        online == IF pretrained THEN TRUE ELSE hp0.online_ft
        enc == IF encoder_arg # "<module>"
               THEN init_encoder(hp.encoder, module.Cz, module.hw)
               ELSE module
        s0 == [hparams |-> hp, encoder |-> enc, online_evaluator |-> online,
               info_nce |-> NoTask, non_linear_evaluator |-> NoProbe]
        ch == compute_final_nb_c(s0, hp.patch_size)
        s1 == [s0 EXCEPT !.info_nce = [num_input_channels |-> ch.c],
                         !.non_linear_evaluator =
                            IF online THEN [n_input |-> ch.c * ch.h * ch.h] ELSE NoProbe]
    IN  IF ~ch.ok THEN [ok |-> FALSE, err |-> ch.err, self |-> s0]
        ELSE IF pretrained /\ load_pretrained(encoder_arg) # "ok"
        THEN [ok |-> FALSE, err |-> load_pretrained(encoder_arg), self |-> s1]
        ELSE [ok |-> TRUE, err |-> "", self |-> s1]

\* ------------------------------------------------------------------ state
VARIABLES
    phase,                 \* "new", "ready" (constructed) or "failed" (__init__ raised)
    hparams,               \* self.hparams
    encoder,               \* self.encoder
    online_evaluator,      \* self.online_evaluator
    info_nce,              \* self.info_nce
    non_linear_evaluator,  \* self.non_linear_evaluator
    loaded,                \* the batch the dataloader handed out last
    result,                \* what the last call on the model left behind
    flat,                  \* argument Z of a direct __recover_z_shape call
    orig_b,                \* argument b of that call
    grid,                  \* the grid flat was flattened from, if any
    recovered              \* what that call returned

vars == <<phase, hparams, encoder, online_evaluator, info_nce, non_linear_evaluator,
          loaded, result, flat, orig_b, grid, recovered>>

Self ==
    [hparams |-> hparams, encoder |-> encoder, online_evaluator |-> online_evaluator,
     info_nce |-> info_nce, non_linear_evaluator |-> non_linear_evaluator]

NotCalled == [ok |-> FALSE, err |-> "not called", t |-> NoTensor]

ModelNew ==
    /\ phase = "new"
    /\ hparams = [encoder |-> "none", patch_size |-> 0, online_ft |-> FALSE]
    /\ encoder = NoEncoder
    /\ online_evaluator = FALSE
    /\ info_nce = NoTask
    /\ non_linear_evaluator = NoProbe
    /\ loaded = NoItem
    /\ result = NoResult

RecoverIdle ==
    /\ flat = NoTensor
    /\ orig_b = 0
    /\ grid = NoTensor
    /\ recovered = NotCalled

Init == ModelNew /\ RecoverIdle

\* ----------------------------------------------------------------- actions
EncoderArgs == {"cpc_encoder", "resnet18", "<module>"}

Modules == [returns : {"tensor", "list"}, Cz : Channels, hw : SpatialSides]

DatasetArgs == {"cifar10", "stl10"}

\* model = CPCV2(encoder = ..., online_ft = ..., pretrained = ..., [dataset = ...])
Construct ==
    /\ phase = "new"
    /\ \E encoder_arg \in EncoderArgs, module \in Modules, online_ft \in BOOLEAN,
          pretrained \in BOOLEAN, has_dataset \in BOOLEAN, dataset \in DatasetArgs :
          \* a named encoder's return kind is fixed by init_encoder
          /\ encoder_arg # "<module>" =>
                module.returns = init_encoder(encoder_arg, module.Cz, module.hw).returns
          /\ LET m == init(encoder_arg, module, DefaultPatchSize, online_ft, pretrained,
                           has_dataset, dataset)
             IN  /\ phase' = IF m.ok THEN "ready" ELSE "failed"
                 /\ hparams' = m.self.hparams
                 /\ encoder' = m.self.encoder
                 /\ online_evaluator' = m.self.online_evaluator
                 /\ info_nce' = m.self.info_nce
                 /\ non_linear_evaluator' = m.self.non_linear_evaluator
                 /\ result' = [NoResult EXCEPT !.op = "__init__",
                                               !.status = IF m.ok THEN "ok" ELSE m.err]
    /\ UNCHANGED <<loaded, flat, orig_b, grid, recovered>>

\* The batches a dataloader hands out: (image_patches, labels), or a pair of such
\* pairs (unlabeled, labeled).
SingleBatch(B, P) ==
    PySeq(Image(B, P, DefaultPatchSize, "batch", 0), Labels(B, "batch", 0))

DualBatch(B, P) ==
    PySeq(PySeq(Image(B, P, DefaultPatchSize, "batch[0]", 0), Labels(B, "batch[0]", 0)),
          PySeq(Image(B, P, DefaultPatchSize, "batch[1]", 500), Labels(B, "batch[1]", 1)))

Batches == {SingleBatch(B, P) : B \in BatchSizes, P \in PatchCounts}
             \cup {DualBatch(B, P) : B \in BatchSizes, P \in PatchCounts}

IsDual(x) == x.kind = "seq" /\ x.elems[1].kind = "seq"

\* train_dataloader / val_dataloader: the next batch is handed out, once the call
\* made with the one before has returned.
NextBatch ==
    /\ phase = "ready"
    /\ result # NoResult
    /\ \E x \in Batches : loaded' = x
    /\ result' = NoResult
    /\ UNCHANGED <<phase, hparams, encoder, online_evaluator, info_nce,
                   non_linear_evaluator, flat, orig_b, grid, recovered>>

Call(r) ==
    /\ phase = "ready"
    /\ result' = r
    /\ UNCHANGED <<phase, hparams, encoder, online_evaluator, info_nce,
                   non_linear_evaluator, loaded, flat, orig_b, grid, recovered>>

\* The trainer asks for the optimizers before it asks for the first batch.
ConfigureOptimizers ==
    /\ loaded = NoItem
    /\ Call(configure_optimizers(Self))

\* The trainer makes one call with each batch handed out.
Fresh == loaded # NoItem /\ result = NoResult

\* ge: whether the caller has gradient computation enabled around the call.
TrainingStep ==
    /\ Fresh
    /\ \E ge \in BOOLEAN : Call(training_step(Self, loaded, ge))

ValidationStep ==
    /\ Fresh
    /\ \E ge \in BOOLEAN : Call(validation_step(Self, loaded, ge))

BatchImages(x) ==
    IF IsDual(x) THEN {x.elems[1].elems[1], x.elems[2].elems[1]} ELSE {x.elems[1]}

\* out = model(x)
ForwardCall ==
    /\ Fresh
    /\ \E ge \in BOOLEAN, x \in BatchImages(loaded) :
          LET f == forward(Self, x, ge)
          IN  Call([NoResult EXCEPT !.op = "forward", !.ge = ge, !.runs = Runs(f),
                                    !.status = IF f.ok THEN "ok" ELSE f.err,
                                    !.Z = f.t, !.z_in = [NoTensor EXCEPT !.src = x.src]])

Next ==
    \/ Construct
    \/ NextBatch
    \/ ConfigureOptimizers
    \/ TrainingStep
    \/ ValidationStep
    \/ ForwardCall

Spec == Init /\ [][Next]_vars

\* ------------------------------------- direct calls of __recover_z_shape
Trails == {<<>>, <<1>>} \cup {<<h, h>> : h \in SpatialSides}

\* A (B, Cz, n, n) grid whose elements are all different.
Grid(B, Cz, n) ==
    [shape |-> <<B, Cz, n, n>>, data |-> [k \in 1..(B * Cz * n * n) |-> k],
     grad |-> {}, src |-> "grid"]

\* Image-major, patch-minor flattening: F[b*P + i*n + j][c] = G[b][c][i][j].
FlattenGrid(G, trail) ==
    LET B == G.shape[1]
        Cz == G.shape[2]
        P == G.shape[3] * G.shape[4]
    IN  [G EXCEPT !.shape = <<B * P, Cz>> \o trail,
                  !.data = [k \in 1..(B * P * Cz) |->
                              LET q == (k - 1) \div Cz
                                  c == (k - 1) % Cz
                              IN  G.data[((q \div P) * Cz + c) * P + (q % P) + 1]]]

\* Per-patch encoder outputs that come from no grid.
Raw(B, P, Cz, trail) ==
    [shape |-> <<B * P, Cz>> \o trail,
     data |-> [k \in 1..(B * P * Cz * Prod(trail)) |-> k], grad |-> {}, src |-> "raw"]

InitRecover ==
    /\ ModelNew
    /\ recovered = NotCalled
    /\ \E B \in BatchSizes, P \in PatchCounts, Cz \in Channels, trail \in Trails :
          /\ orig_b = B
          /\ IF IsSquare(P) /\ Prod(trail) = 1
             THEN /\ grid = Grid(B, Cz, ISqrt(P))
                  /\ flat = FlattenGrid(grid, trail)
             ELSE /\ grid = NoTensor
                  /\ flat = Raw(B, P, Cz, trail)

RecoverCall ==
    /\ recovered = NotCalled
    /\ recovered' = recover_z_shape(flat, orig_b)
    /\ UNCHANGED <<phase, hparams, encoder, online_evaluator, info_nce,
                   non_linear_evaluator, loaded, result, flat, orig_b, grid>>

NextRecover == RecoverCall

SpecRecover == InitRecover /\ [][NextRecover]_vars

\* ------------------------------------------------------------ properties
Called == recovered # NotCalled

\* The patch count of the flat argument, and whether it holds one vector per patch.
FlatP == flat.shape[1] \div orig_b

PerPatchVectors == Len(flat.shape) >= 3 /\ Prod(SubSeq(flat.shape, 3, Len(flat.shape))) = 1

LoadedImage == IF IsDual(loaded) THEN loaded.elems[1].elems[1] ELSE loaded.elems[1]

LoadedB == LoadedImage.size[1]

LoadedP == LoadedImage.size[2]

IsStep == result.op \in {"training_step", "validation_step"}

EncoderPaths(s) == {g \in s.grad : g[1] = "encoder"}

\* C1: reassembly round trip. A (B, Cz, n, n) grid flattened image-major,
\* patch-minor into a (B*n*n, Cz, 1) tensor is returned by __recover_z_shape with
\* shape exactly (B, Cz, n, n) and every element in its place.
C1_RoundTrip ==
    (Called /\ grid # NoTensor /\ Len(flat.shape) = 3)
        => /\ recovered.ok
           /\ recovered.t.shape = grid.shape
           /\ recovered.t.data = grid.data

C1_Witness ==
    /\ Called /\ recovered.ok /\ grid # NoTensor /\ Len(flat.shape) = 3
    /\ orig_b >= 2 /\ grid.shape[2] >= 2 /\ grid.shape[3] >= 2
    /\ flat.data # grid.data

\* C2: a non-square patch count is rejected. For a flat tensor of B*P per-patch
\* vectors with P not a perfect square, __recover_z_shape fails with a shape error
\* and never returns a grid.
C2_NonSquareRejected ==
    (Called /\ PerPatchVectors /\ ~IsSquare(FlatP)) => ~recovered.ok

\* C7: an encoder output that keeps a spatial extent h = w > 1 per patch, shape
\* (B*P, Cz, h, w), is rejected by __recover_z_shape with a shape error; no grid is
\* returned for it.
C7_SpatialOutputRejected ==
    (Called /\ Len(flat.shape) = 4 /\ flat.shape[3] > 1 /\ flat.shape[4] > 1)
        => ~recovered.ok

\* C3: gradient isolation in training. With the probe enabled, the grid given to
\* the probe carries no gradient path, so the probe loss reaches no encoder
\* parameter, and the returned loss reaches the encoder exactly as the contrastive
\* loss alone does.
C3_GradientIsolation ==
    (result.op = "training_step" /\ online_evaluator /\ result.z_in # NoTensor)
        => /\ result.z_in.grad = {}
           /\ result.status = "ok" =>
                 /\ EncoderPaths(result.mlp_loss) = {}
                 /\ EncoderPaths(result.loss) = EncoderPaths(result.nce_loss)

C3_Witness ==
    /\ result.op = "training_step" /\ result.status = "ok" /\ online_evaluator
    /\ result.ge /\ result.dual
    /\ <<"encoder", "nce">> \in result.loss.grad
    /\ <<"non_linear_evaluator", "mlp">> \in result.loss.grad

\* C4: encoder return contract. For an encoder given by name or as a module, which
\* returns a (N, Cz, 1, 1) tensor or a sequence whose first element is one, the
\* shape probe at construction binds the channel count Cz and forward returns a
\* grid of shape (B, Cz, sqrt(P), sqrt(P)).
C4_EncoderReturnContract ==
    (phase = "ready" /\ encoder.hw = 1)
        => /\ info_nce.num_input_channels = encoder.Cz
           /\ (result.op = "forward" /\ IsSquare(LoadedP))
                 => /\ result.status = "ok"
                    /\ result.Z.shape = <<LoadedB, encoder.Cz, ISqrt(LoadedP), ISqrt(LoadedP)>>

\* C5: a model built with the default arguments (no dataset keyword, no pretrained)
\* can be trained: configure_optimizers, training_step and validation_step never
\* fail because the dataset name is missing from the configuration.
C5_DefaultsTrainable ==
    (phase = "ready" /\ hparams.encoder = "cpc_encoder" /\ hparams.online_ft
       /\ ~HasAttr(hparams, "dataset")
       /\ result.op \in {"configure_optimizers", "training_step", "validation_step"})
        => result.status # MissingDataset

\* C6: training-step combination. A training_step that returns gives loss =
\* contrastive loss + probe loss with log keys {train_nce_loss, train_mlp_loss} and
\* two encoder runs, the second with gradients disabled, when the probe is
\* enabled; and loss = contrastive loss with log key {train_nce_loss} and one
\* encoder run when it is disabled.
C6_TrainingCombination ==
    (result.op = "training_step" /\ result.status = "ok")
        => IF online_evaluator
           THEN /\ result.loss.value = result.nce_loss.value + result.mlp_loss.value
                /\ result.loss.grad = result.nce_loss.grad \cup result.mlp_loss.grad
                /\ result.keys = {"train_nce_loss", "train_mlp_loss"}
                /\ result.runs = <<result.ge, FALSE>>
           ELSE /\ result.loss = result.nce_loss
                /\ result.mlp_loss = NoScalar
                /\ result.keys = {"train_nce_loss"}
                /\ result.runs = <<result.ge>>

C6_Witness ==
    /\ result.op = "training_step" /\ result.status = "ok" /\ online_evaluator
    /\ result.ge /\ result.mlp_loss.value > 0
    /\ result.loss.value > result.nce_loss.value

\* C8: validation computes no gradients. Whatever gradient mode the caller has set,
\* neither loss of a validation_step has a gradient path to any parameter.
C8_ValidationNoGradients ==
    (result.op = "validation_step" /\ result.status = "ok")
        => /\ result.nce_loss.grad = {}
           /\ result.mlp_loss.grad = {}

\* C9: stream selection. A step is dual-stream iff dataset == 'stl10', whatever the
\* batch looks like; in dual-stream mode the contrastive loss is computed from the
\* images of batch[0] and the probe loss from the images and labels of batch[1]; in
\* single-stream mode both use the one pair.
C9_StreamSelection ==
    (IsStep /\ result.status = "ok")
        => /\ IsDual(loaded) = IsDualStream(hparams)
           /\ result.nce_loss.img_src = IF IsDualStream(hparams) THEN "batch[0]" ELSE "batch"
           /\ online_evaluator =>
                 /\ result.mlp_loss.img_src
                       = IF IsDualStream(hparams) THEN "batch[1]" ELSE "batch"
                 /\ result.mlp_loss.y_src = result.mlp_loss.img_src

C9_Witness ==
    /\ result.op = "validation_step" /\ result.status = "ok" /\ online_evaluator
    /\ IsDualStream(hparams)
    /\ result.nce_loss.img_src = "batch[0]"
    /\ result.mlp_loss.y_src = "batch[1]"

\* C10: the shapes bound at construction agree with the shapes at call time. For
\* every batch with a square patch count, the grid forward produces has the channel
\* count given to the contrastive task, and its flattening has the width the probe
\* classifier was built for.
C10_ShapeBinding ==
    (IsStep /\ result.z_in # NoTensor /\ IsSquare(LoadedP))
        => /\ result.Z.shape[2] = info_nce.num_input_channels
           /\ result.z_in.shape[2] = non_linear_evaluator.n_input

====
